---------------------------- MODULE Spec2Model ----------------------------
(***************************************************************************)
(* A state-machine model of the Fragment audio buffer of splat             *)
(* (src/_geomusic.c) and of its filters (src/filter.c).                    *)
(*                                                                         *)
(* Numbers.  A float sample is an integer number of sample units, One      *)
(* units being 1.0; a Python float (a C double) handed to or returned by   *)
(* the sequence interface is an integer number of half units, so that the  *)
(* (float) cast of Fragment_sq_ass_item loses information as it does in C. *)
(* A level in dB is a multiple of 20, where pow10(dB / 20) is an integer.  *)
(* Machine integers keep their wrap-around, at the reduced widths SizeBits *)
(* (size_t, Py_ssize_t) and UIntBits (unsigned, int).                      *)
(***************************************************************************)
EXTENDS Integers, Sequences, FiniteSets, TLC

VARIABLES frag, last, wire, fault, nops

vars == <<frag, last, wire, fault, nops>>

(***************************************************************************)
(* Bounds of the model.                                                    *)
(***************************************************************************)
MaxLen == 2
MaxOps == 2
SizeBits == 8
UIntBits == 5

(***************************************************************************)
(* Program constants.                                                      *)
(***************************************************************************)
MAX_CHANNELS == 16
SizeofFloat == 4
Divisor == 32678
FullScale == 32767

One == Divisor

SIZE_MOD == 2 ^ SizeBits
SIZE_MAX == SIZE_MOD - 1
PY_SSIZE_T_MAX == (SIZE_MOD \div 2) - 1
UINT_MOD == 2 ^ UIntBits
INT_MAX == (UINT_MOD \div 2) - 1

ToSizeT(x) == x % SIZE_MOD
ToSsizeT(x) == IF (x % SIZE_MOD) > PY_SSIZE_T_MAX THEN (x % SIZE_MOD) - SIZE_MOD
               ELSE x % SIZE_MOD
ToUInt(x) == x % UINT_MOD
ToInt(x) == IF (x % UINT_MOD) > INT_MAX THEN (x % UINT_MOD) - UINT_MOD
            ELSE x % UINT_MOD

Abs(x) == IF x < 0 THEN 0 - x ELSE x
Max2(a, b) == IF a > b THEN a ELSE b
\* C's truncating integer division (toward zero), d > 0
TruncDiv(a, d) == IF a >= 0 THEN a \div d ELSE 0 - ((0 - a) \div d)

(***************************************************************************)
(* struct Fragment_object.  data[c] is a channel pointer: NULL, or a heap  *)
(* block whose capacity (in floats) is Len(mem).                           *)
(***************************************************************************)
NullChan == [null |-> TRUE, mem |-> <<>>]
HeapChan(s) == [null |-> FALSE, mem |-> s]

FragIds == {1, 2}

Zeros(n) == [j \in 1..n |-> 0]

\* Fragment_init: n_channels zero-filled channels of duration * rate samples
Fragment_init(n_channels, rate, length) ==
    [n_channels |-> n_channels, rate |-> rate, length |-> length,
     data |-> [c \in 1..n_channels |->
                 IF length * SizeofFloat = 0 THEN NullChan
                 ELSE HeapChan(Zeros(length))]]

\* The fragments the sequence interface can build from Fragment_init: any
\* float in any cell (Fragment_sq_ass_item stores any float).
FragsWith(chans, rates, lens, vals) ==
    UNION { UNION { UNION {
        { [n_channels |-> n, rate |-> r, length |-> l,
           data |-> [c \in 1..n |-> IF l = 0 THEN NullChan ELSE HeapChan(d[c])]] :
          d \in [1..n -> [1..l -> vals]] }
        : l \in lens } : r \in rates } : n \in chans }

\* The first length samples of every channel are addressable
ValidFrag(f) ==
    /\ f.length >= 0
    /\ \A c \in 1..f.n_channels :
          \/ f.length = 0
          \/ (~f.data[c].null /\ Len(f.data[c].mem) >= f.length)

\* sample i (0-based) of channel c
Sample(f, c, i) == f.data[c].mem[i + 1]

\* The record of the last call: the fragments before it, its arguments, the
\* error it reported, what it returned, whether an allocation was refused,
\* and the call before it.
NoCall == [op |-> "none", target |-> 0, pre |-> <<>>, args |-> <<>>, err |-> "none"]
NoOp == [op |-> "none", target |-> 0, pre |-> <<>>, args |-> <<>>,
         err |-> "none", ret |-> <<>>, oom |-> FALSE, before |-> NoCall]

Before == [op |-> last.op, target |-> last.target, pre |-> last.pre,
           args |-> last.args, err |-> last.err]

(***************************************************************************)
(* do_resize.  failAt is the channel whose allocation the allocator        *)
(* refuses (0: none); junk is what uninitialised heap memory holds.        *)
(* PyMem_Malloc and PyMem_Realloc refuse any size above PY_SSIZE_T_MAX     *)
(* and serve a size of 0 as a size of 1.  The result is the fragment, the  *)
(* status (0, -1) and whether the memset left the block.                   *)
(***************************************************************************)
do_resize(self, length, failAt, junk) ==
    IF length <= ToSizeT(self.length)
    THEN [frag |-> self, stat |-> 0, fault |-> FALSE, oom |-> FALSE]
    ELSE
      LET start == ToSizeT(ToSizeT(self.length) * SizeofFloat)
          data_size == ToSizeT(length * SizeofFloat)
          refused == data_size > PY_SSIZE_T_MAX
          first == IF self.n_channels = 0 THEN 0
                   ELSE IF refused THEN 1
                   ELSE IF failAt \in 1..self.n_channels THEN failAt ELSE 0
          cap == data_size \div SizeofFloat
          count == ToSizeT(data_size - start)
          inBlock == /\ self.length >= 0
                     /\ start + count <= data_size
          grown(c) ==
              HeapChan([j \in 1..cap |->
                  IF j <= self.length
                  THEN IF ~self.data[c].null /\ j <= Len(self.data[c].mem)
                       THEN self.data[c].mem[j] ELSE junk
                  ELSE 0])
      IN IF first # 1 /\ self.n_channels > 0 /\ ~inBlock
         THEN [frag |-> self, stat |-> 0 - 1, fault |-> TRUE, oom |-> FALSE]
         ELSE IF first # 0
         THEN [frag |-> [self EXCEPT !.data =
                           [c \in 1..self.n_channels |->
                              IF c < first THEN grown(c)
                              ELSE IF c = first THEN NullChan
                              ELSE self.data[c]]],
               stat |-> 0 - 1, fault |-> FALSE, oom |-> TRUE]
         ELSE [frag |-> [self EXCEPT !.length = ToSsizeT(length),
                                     !.data = [c \in 1..self.n_channels |-> grown(c)]],
               stat |-> 0, fault |-> FALSE, oom |-> FALSE]

Junk == {0, 7}
ChanCounts == {1, 2}
FailAts == {0} \cup ChanCounts

\* Fragment_resize: "n" parses any Py_ssize_t, do_resize takes it as size_t
ResizeArgs == {0 - 1, 0 - (SIZE_MOD \div 4)} \cup (0..(MaxLen + 1))

Fragment_resize(t, n, failAt, junk) ==
    LET r == do_resize(frag[t], ToSizeT(n), failAt, junk)
    IN /\ ~fault
       /\ frag' = [frag EXCEPT ![t] = r.frag]
       /\ fault' = r.fault
       /\ last' = [op |-> "resize", target |-> t, pre |-> frag,
                   args |-> [n |-> n],
                   err |-> IF r.fault THEN "fault"
                           ELSE IF r.stat < 0 THEN "OutOfMemory" ELSE "none",
                   ret |-> <<>>, oom |-> r.oom, before |-> Before]
       /\ UNCHANGED wire

Resize ==
    \E n \in ResizeArgs, failAt \in FailAts, junk \in Junk :
        Fragment_resize(1, n, failAt, junk)

(***************************************************************************)
(* The sequence interface.  A Python float is a double, in half units; the *)
(* (float) cast rounds it to the nearest float, ties to even, and the      *)
(* (double) cast of a float is exact.                                      *)
(***************************************************************************)
ToFloat(d) == IF d % 2 = 0 THEN d \div 2
              ELSE IF ((d - 1) \div 2) % 2 = 0 THEN (d - 1) \div 2
              ELSE (d + 1) \div 2
ToDouble(x) == 2 * x

Readable(f, c, i) == ~f.data[c].null /\ 0 <= i /\ i < Len(f.data[c].mem)

\* Fragment_sq_item
Fragment_sq_item(t, i) ==
    LET self == frag[t]
        range == (i < 0) \/ (i >= self.length)
        bad == ~range /\ \E c \in 1..self.n_channels : ~Readable(self, c, i)
    IN /\ ~fault
       /\ fault' = bad
       /\ last' = [op |-> "get", target |-> t, pre |-> frag, args |-> [i |-> i],
                   err |-> IF range THEN "IndexError"
                           ELSE IF bad THEN "fault" ELSE "none",
                   ret |-> IF range \/ bad THEN <<>>
                           ELSE [c \in 1..self.n_channels |->
                                    ToDouble(Sample(self, c, i))],
                   oom |-> FALSE, before |-> Before]
       /\ UNCHANGED <<frag, wire>>

\* A Python object handed as the item: a tuple of objects, or something else;
\* an element is a float (PyFloat_CheckExact) or not.
PyFloat(d) == [isfloat |-> TRUE, val |-> d]
PyOther == [isfloat |-> FALSE, val |-> 0]
PyTuple(items) == [istuple |-> TRUE, items |-> items]
PyNotTuple == [istuple |-> FALSE, items |-> <<>>]

\* the position of the first element that is no float (0: every one is)
FirstNonFloat(items) ==
    IF \A k \in 1..Len(items) : items[k].isfloat THEN 0
    ELSE CHOOSE k \in 1..Len(items) :
            /\ ~items[k].isfloat
            /\ \A j \in 1..(k - 1) : items[j].isfloat

\* a loop that stops one channel short
StoredChannels_Short(self, v) ==
    IF FirstNonFloat(v.items) = 0 THEN 1..(self.n_channels - 1)
    ELSE 1..(FirstNonFloat(v.items) - 1)

\* the channels the loop of Fragment_sq_ass_item stores into before it
\* returns: all of them, or those before the first element that is no float
StoredChannels(self, v) ==
    IF FirstNonFloat(v.items) = 0 THEN 1..self.n_channels
    ELSE 1..(FirstNonFloat(v.items) - 1)

\* Fragment_sq_ass_item
Fragment_sq_ass_item(t, i, v) ==
    LET self == frag[t]
        check == IF ~v.istuple THEN "TypeError"
                 ELSE IF Len(v.items) # self.n_channels THEN "ValueError"
                 ELSE IF (i < 0) \/ (i >= self.length) THEN "IndexError"
                 ELSE "none"
        stored == StoredChannels(self, v)
        bad == check = "none" /\ \E c \in stored : ~Readable(self, c, i)
        err == IF check # "none" THEN check
               ELSE IF bad THEN "fault"
               ELSE IF FirstNonFloat(v.items) # 0 THEN "TypeError" ELSE "none"
    IN /\ ~fault
       /\ fault' = bad
       /\ frag' = IF check # "none" \/ bad THEN frag
                  ELSE [frag EXCEPT ![t].data =
                          [c \in 1..self.n_channels |->
                             IF c \in stored
                             THEN [self.data[c] EXCEPT
                                     !.mem[i + 1] = ToFloat(v.items[c].val)]
                             ELSE self.data[c]]]
       /\ last' = [op |-> "set", target |-> t, pre |-> frag,
                   args |-> [i |-> i, v |-> v],
                   err |-> err, ret |-> <<>>, oom |-> FALSE, before |-> Before]
       /\ UNCHANGED wire

Indices == (0 - 1)..MaxLen
PyItems == {PyFloat(6), PyFloat(3), PyOther}
PyValues == {PyNotTuple} \cup
            UNION { { PyTuple(q) : q \in [1..k -> PyItems] } : k \in ChanCounts }

Get == \E i \in Indices : Fragment_sq_item(1, i)
Set == \E i \in Indices, v \in PyValues : Fragment_sq_ass_item(1, i, v)

(***************************************************************************)
(* geomusic_reverse (and splat_filter_reverse): i and j are size_t, so     *)
(* j = length - 1 wraps to SIZE_MAX on an empty fragment.  An access       *)
(* outside the channel's block is undefined behaviour: fault.              *)
(***************************************************************************)
InBlock(ch, i) == ~ch.null /\ 0 <= i /\ i < Len(ch.mem)

RECURSIVE ReverseLoop(_, _, _)
ReverseLoop(ch, i, j) ==
    IF ~(i < j) THEN [chan |-> ch, fault |-> FALSE]
    ELSE IF ~InBlock(ch, i) \/ ~InBlock(ch, j) THEN [chan |-> ch, fault |-> TRUE]
    ELSE ReverseLoop([ch EXCEPT !.mem[i + 1] = ch.mem[j + 1],
                                !.mem[j + 1] = ch.mem[i + 1]],
                     ToSizeT(i + 1), ToSizeT(j - 1))

ReverseChannel(self, c) == ReverseLoop(self.data[c], 0, ToSizeT(self.length - 1))

geomusic_reverse(t) ==
    LET self == frag[t]
        bad == \E c \in 1..self.n_channels : ReverseChannel(self, c).fault
    IN /\ ~fault
       /\ fault' = bad
       /\ frag' = IF bad THEN frag
                  ELSE [frag EXCEPT ![t].data =
                          [c \in 1..self.n_channels |-> ReverseChannel(self, c).chan]]
       /\ last' = [op |-> "reverse", target |-> t, pre |-> frag, args |-> <<>>,
                   err |-> IF bad THEN "fault" ELSE "none",
                   ret |-> <<>>, oom |-> FALSE, before |-> Before]
       /\ UNCHANGED wire

Reverse == geomusic_reverse(1)

(***************************************************************************)
(* Level conversion: dB2lin(dB) = pow10(dB / 20), on the multiples of 20.  *)
(***************************************************************************)
IsLevel(dB) == dB >= 0 /\ dB % 20 = 0
dB2lin(dB) == 10 ^ (dB \div 20)

(***************************************************************************)
(* geomusic_reverb.  Times are in ticks of 1 / TimeDen second.  rand() is  *)
(* a generator over 0..RAND_MAX that srand(seed) determines; a seed of 0   *)
(* is replaced by the clock.                                               *)
(***************************************************************************)
TimeDen == 4
RAND_MAX == 2

\* the k-th value rand() returns after srand(seed), k = 0, 1, ...
Rand(seed, k) == (seed + k + (seed * k)) % (RAND_MAX + 1)

\* an element of the delays list
Delay(time, gain) == [kind |-> "pair", time |-> time, gain |-> gain]
NotATuple == [kind |-> "nottuple", time |-> 0, gain |-> 0]
Triple == [kind |-> "badsize", time |-> 0, gain |-> 0]

\* the first element of the list the parsing loop rejects, and its error
FirstBadDelay(delays_list) ==
    IF \A d \in 1..Len(delays_list) :
          delays_list[d].kind = "pair" /\ delays_list[d].time >= 0
    THEN 0
    ELSE CHOOSE d \in 1..Len(delays_list) :
            /\ ~(delays_list[d].kind = "pair" /\ delays_list[d].time >= 0)
            /\ \A e \in 1..(d - 1) :
                  delays_list[e].kind = "pair" /\ delays_list[e].time >= 0

DelayError(item) == IF item.kind = "nottuple" THEN "TypeError" ELSE "ValueError"

\* rand() is called n_channels times for the times of delay d, then
\* n_channels times for its gains (c and d count from 1)
TimeRand(seed, nc, c, d) == Rand(seed, (d - 1) * 2 * nc + (c - 1))
GainRand(seed, nc, c, d) == Rand(seed, (d - 1) * 2 * nc + nc + (c - 1))

\* delays[c][d].time = c_time * frag->rate, truncated, with
\* c_time = time * (1.0 + (rand() * time_factor / RAND_MAX))
TapTime(time, r, time_factor, rate) ==
    (time * (RAND_MAX + r * time_factor) * rate) \div (RAND_MAX * TimeDen)

\* c_gain = gain - gain_factor + (rand() * gain_factor * 2.0 / RAND_MAX),
\* in RAND_MAX-ths of a dB
TapGainNum(gain, r, gain_factor) ==
    (gain - gain_factor) * RAND_MAX + r * gain_factor * 2

TapGain(gain, r, gain_factor) == dB2lin(TapGainNum(gain, r, gain_factor) \div RAND_MAX)

\* struct delay *delays[MAX_CHANNELS], filled from the list
Taps(self, delays_list, time_factor, gain_factor, seed) ==
    [c \in 1..self.n_channels |->
       [d \in 1..Len(delays_list) |->
          [time |-> TapTime(delays_list[d].time,
                            TimeRand(seed, self.n_channels, c, d),
                            time_factor, self.rate),
           gain |-> TapGain(delays_list[d].gain,
                            GainRand(seed, self.n_channels, c, d),
                            gain_factor)]]]

\* the model's dB table covers every gain of the call
GainsExact(self, delays_list, gain_factor, seed) ==
    \A c \in 1..self.n_channels : \A d \in 1..Len(delays_list) :
       LET num == TapGainNum(delays_list[d].gain,
                             GainRand(seed, self.n_channels, c, d), gain_factor)
       IN num % RAND_MAX = 0 /\ IsLevel(num \div RAND_MAX)

MaxDelay(taps) ==
    LET times == {0} \cup UNION { { taps[c][d].time : d \in 1..Len(taps[c]) } :
                                      c \in DOMAIN taps }
    IN CHOOSE m \in times : \A x \in times : x <= m

\* for (d = 0; d < n_delays; ++d) c_data[i + c_delay[d].time] += s * gain;
\* st is [chan, fault, written]: the block, whether an access left it, and
\* the indices written so far in this pass
RECURSIVE TapLoop(_, _, _, _, _)
TapLoop(st, c_delay, s, i, d) ==
    IF d > Len(c_delay) \/ st.fault THEN st
    ELSE LET k == ToSizeT(i + c_delay[d].time)
         IN IF ~InBlock(st.chan, k) THEN [st EXCEPT !.fault = TRUE]
            ELSE TapLoop([st EXCEPT
                            !.chan.mem[k + 1] = st.chan.mem[k + 1] + s * c_delay[d].gain,
                            !.written = st.written \cup {k}],
                         c_delay, s, i, d + 1)

\* do { const double s = c_data[i]; ... } while (i--);  stale records a
\* read of an index this pass has already written
RECURSIVE ReverbLoop(_, _, _)
ReverbLoop(st, c_delay, i) ==
    IF st.fault THEN st
    ELSE IF ~InBlock(st.chan, i) THEN [st EXCEPT !.fault = TRUE]
    ELSE LET s == st.chan.mem[i + 1]
             seen == [st EXCEPT !.stale = st.stale \/ (i \in st.written)]
             after == TapLoop(seen, c_delay, s, i, 1)
         IN IF i = 0 THEN after ELSE ReverbLoop(after, c_delay, i - 1)

\* the same pass walking the index upward from 0 to max_index
RECURSIVE ReverbLoopUp(_, _, _, _)
ReverbLoopUp(st, c_delay, i, max_index) ==
    IF st.fault THEN st
    ELSE IF ~InBlock(st.chan, i) THEN [st EXCEPT !.fault = TRUE]
    ELSE LET s == st.chan.mem[i + 1]
             seen == [st EXCEPT !.stale = st.stale \/ (i \in st.written)]
             after == TapLoop(seen, c_delay, s, i, 1)
         IN IF i = max_index THEN after ELSE ReverbLoopUp(after, c_delay, i + 1, max_index)

ReverbChannel_Ascending(ch, c_delay, max_index) ==
    ReverbLoopUp([chan |-> ch, fault |-> FALSE, written |-> {}, stale |-> FALSE],
                 c_delay, 0, max_index)

ReverbChannel(ch, c_delay, max_index) ==
    ReverbLoop([chan |-> ch, fault |-> FALSE, written |-> {}, stale |-> FALSE],
               c_delay, max_index)

\* delayFail: the channel whose delays array the allocator refuses (0: none);
\* while (--c) PyMem_Free(delays[c]) wraps when the first one is refused
geomusic_reverb(t, delays_list, time_factor, gain_factor, seed, clock, delayFail, failAt, junk) ==
    LET self == frag[t]
        sd == IF seed = 0 THEN clock ELSE seed
        nofree == delayFail \in 1..self.n_channels
        badItem == FirstBadDelay(delays_list)
        taps == Taps(self, delays_list, time_factor, gain_factor, sd)
        max_delay == MaxDelay(taps)
        max_index == ToSizeT(self.length - 1)
        r == do_resize(self, ToSizeT(self.length + max_delay), failAt, junk)
        pass == [c \in 1..self.n_channels |->
                    ReverbChannel(r.frag.data[c], taps[c], max_index)]
        parsed == ~nofree /\ badItem = 0
        ran == parsed /\ r.stat = 0 /\ ~r.fault
        bad == \/ delayFail = 1 /\ self.n_channels >= 1
               \/ parsed /\ r.fault
               \/ ran /\ \E c \in 1..self.n_channels : pass[c].fault
        err == IF bad THEN "fault"
               ELSE IF nofree THEN "OutOfMemory"
               ELSE IF badItem # 0 THEN DelayError(delays_list[badItem])
               ELSE IF r.stat < 0 THEN "OutOfMemory" ELSE "none"
    IN /\ ~fault
       /\ badItem = 0 => GainsExact(self, delays_list, gain_factor, sd)
       /\ fault' = bad
       /\ frag' = IF bad \/ ~parsed THEN frag
                  ELSE IF ~ran THEN [frag EXCEPT ![t] = r.frag]
                  ELSE [frag EXCEPT ![t] =
                          [r.frag EXCEPT !.data =
                             [c \in 1..self.n_channels |-> pass[c].chan]]]
       /\ last' = [op |-> "reverb", target |-> t, pre |-> frag,
                   args |-> [delays |-> delays_list, time_factor |-> time_factor,
                             gain_factor |-> gain_factor, seed |-> seed,
                             delayFail |-> delayFail,
                             taps |-> IF badItem = 0 THEN taps ELSE <<>>,
                             max_delay |-> IF badItem = 0 THEN max_delay ELSE 0],
                   err |-> err,
                   ret |-> [stale |-> ran /\ ~bad /\
                               \E c \in 1..self.n_channels : pass[c].stale],
                   oom |-> nofree \/ (parsed /\ r.oom), before |-> Before]
       /\ UNCHANGED wire

DelayLists ==
    { <<>>, <<Delay(0, 0)>>, <<Delay(2, 0)>>, <<Delay(3, 20)>>,
      <<Delay(0, 0), Delay(2, 20)>>, <<Delay(2, 0), Delay(2, 20)>>,
      <<Delay(4, 20), Delay(0, 20)>>,
      <<Delay(0 - 2, 0)>>, <<Delay(2, 0), Delay(0 - 1, 0)>>,
      <<NotATuple>>, <<Delay(2, 0), Triple>> }
TimeFactors == {0, 1}
GainFactors == {0, 20}
Seeds == 0..2
Clocks == 1..2

Reverb ==
    \E delays_list \in DelayLists, time_factor \in TimeFactors,
       gain_factor \in GainFactors, seed \in Seeds, clock \in Clocks,
       delayFail \in FailAts, failAt \in FailAts :
        /\ (seed # 0 => clock = 1)
        /\ (delayFail # 0 => failAt = 0)
        /\ geomusic_reverb(1, delays_list, time_factor, gain_factor, seed, clock,
                           delayFail, failAt, 0)

(***************************************************************************)
(* Fragment_mix.  start is in ticks; start * self->rate is converted to    *)
(* size_t, which truncates.  frag->length and frag->data are read after    *)
(* do_resize, and the loop adds sample by sample, so the model keeps the   *)
(* order of the accesses (self and frag may be the same fragment).         *)
(***************************************************************************)
\* the conversion rounding to the nearest sample instead
StartSample_Rounded(start, rate) == ToSizeT((2 * start * rate + TimeDen) \div (2 * TimeDen))

StartSample(start, rate) == ToSizeT((start * rate) \div TimeDen)

\* while (i--) *dst++ += *src++;  k counts the samples added so far, n is
\* frag->length; same: src and dst are the same block
RECURSIVE MixLoop(_, _, _, _, _, _)
MixLoop(st, src, same, start_sample, k, n) ==
    IF k = n \/ st.fault THEN st
    ELSE LET from == IF same THEN st.chan ELSE src
             to == ToSizeT(start_sample + k)
         IN IF ~InBlock(from, k) \/ ~InBlock(st.chan, to)
            THEN [st EXCEPT !.fault = TRUE]
            ELSE MixLoop([st EXCEPT !.chan.mem[to + 1] =
                                      st.chan.mem[to + 1] + from.mem[k + 1]],
                         src, same, start_sample, k + 1, n)

Fragment_mix(t, u, start, failAt, junk) ==
    LET self == frag[t]
        check == IF frag[u].n_channels # self.n_channels THEN "ValueError"
                 ELSE IF frag[u].rate # self.rate THEN "ValueError"
                 ELSE "none"
        start_sample == StartSample(start, self.rate)
        total_length == ToSizeT(start_sample + ToSizeT(frag[u].length))
        r == do_resize(self, total_length, failAt, junk)
        other == IF u = t THEN r.frag ELSE frag[u]
        added == [c \in 1..self.n_channels |->
                    MixLoop([chan |-> r.frag.data[c], fault |-> FALSE],
                            other.data[c], u = t, start_sample, 0, other.length)]
        ran == check = "none" /\ r.stat = 0 /\ ~r.fault
        bad == \/ check = "none" /\ r.fault
               \/ ran /\ \E c \in 1..self.n_channels : added[c].fault
    IN /\ ~fault
       /\ fault' = bad
       /\ frag' = IF bad \/ check # "none" THEN frag
                  ELSE IF ~ran THEN [frag EXCEPT ![t] = r.frag]
                  ELSE [frag EXCEPT ![t] =
                          [r.frag EXCEPT !.data =
                             [c \in 1..self.n_channels |-> added[c].chan]]]
       /\ last' = [op |-> "mix", target |-> t, pre |-> frag,
                   args |-> [source |-> u, start |-> start],
                   err |-> IF check # "none" THEN check
                           ELSE IF bad THEN "fault"
                           ELSE IF r.stat < 0 THEN "OutOfMemory" ELSE "none",
                   ret |-> <<>>, oom |-> check = "none" /\ r.oom,
                   before |-> Before]
       /\ UNCHANGED wire

Starts == 0..(2 * TimeDen)

Mix == \E start \in Starts, failAt \in FailAts : Fragment_mix(1, 2, start, failAt, 0)

\* mix(a, a, start): the fragment is its own source
MixSelf == \E start \in Starts, failAt \in FailAts : Fragment_mix(1, 1, start, failAt, 0)

(***************************************************************************)
(* The PCM codec.  A byte array is a sequence of 0..255; a sample on the   *)
(* wire is a little-endian two's complement int16_t.                       *)
(***************************************************************************)
\* s = z * 32767, truncated, or the clamp
Quantize(z) == IF z < 0 - One THEN 0 - FullScale
               ELSE IF z > One THEN FullScale
               ELSE TruncDiv(z * FullScale, One)

\* *out++ = s & 0xFF; *out++ = (s >> 8) & 0xFF;
LowByte(s) == (s % 65536) % 256
HighByte(s) == (s % 65536) \div 256

\* *(int16_t *)in
Int16At(bytes, off) ==
    LET u == bytes[off + 1] + 256 * bytes[off + 2]
    IN IF u >= 32768 THEN u - 65536 ELSE u

\* *(int16_t *)in / 32678.0, stored as a float
Dequantize(s) == (s * One) \div Divisor

\* the bytes of one frame: sample i of every channel in channel order
FrameBytes(self, i) ==
    [b \in 1..(2 * self.n_channels) |->
        LET s == Quantize(Sample(self, (b + 1) \div 2, i))
        IN IF b % 2 = 1 THEN LowByte(s) ELSE HighByte(s)]

RECURSIVE AllFrames(_, _)
AllFrames(self, i) ==
    IF i >= self.length THEN <<>>
    ELSE FrameBytes(self, i) \o AllFrames(self, i + 1)

\* Fragment_as_bytes
Fragment_as_bytes(t, sample_width) ==
    LET self == frag[t]
        check == IF sample_width # 2 THEN "ValueError" ELSE "none"
        bad == check = "none" /\ self.length > 0 /\
               \E c \in 1..self.n_channels : ~InBlock(self.data[c], self.length - 1)
        out == IF check # "none" \/ bad THEN <<>> ELSE AllFrames(self, 0)
    IN /\ ~fault
       /\ fault' = bad
       /\ wire' = IF check # "none" \/ bad THEN wire ELSE out
       /\ last' = [op |-> "encode", target |-> t, pre |-> frag,
                   args |-> [sample_width |-> sample_width],
                   err |-> IF bad THEN "fault" ELSE check,
                   ret |-> out, oom |-> FALSE, before |-> Before]
       /\ UNCHANGED frag

\* for (s = start; s < end; ++s) { *out++ = ...; in += bytes_per_sample; }
\* k counts the frames stored so far, count is the number of iterations
RECURSIVE ImportLoop(_, _, _, _, _, _, _)
ImportLoop(st, bytes, ch, bytes_per_sample, start, k, count) ==
    IF k = count \/ st.fault THEN st
    ELSE LET off == 2 * (ch - 1) + k * bytes_per_sample
         IN IF off + 2 > Len(bytes) \/ ~InBlock(st.chan, start + k)
            THEN [st EXCEPT !.fault = TRUE]
            ELSE ImportLoop([st EXCEPT !.chan.mem[start + k + 1] =
                                         Dequantize(Int16At(bytes, off))],
                            bytes, ch, bytes_per_sample, start, k + 1, count)

\* Fragment_import_bytes: start is an int; n_samples, end and s are unsigned
Fragment_import_bytes(t, bytes, start, sample_width, sample_rate, n_channels, failAt, junk) ==
    LET self == frag[t]
        bytes_per_sample == ToUInt(n_channels * sample_width)
        check == IF sample_width # 2 THEN "ValueError"
                 ELSE IF n_channels # self.n_channels THEN "ValueError"
                 ELSE IF sample_rate # self.rate THEN "ValueError"
                 ELSE IF Len(bytes) % bytes_per_sample # 0 THEN "ValueError"
                 ELSE "none"
        n_samples == ToUInt(Len(bytes) \div bytes_per_sample)
        end == ToUInt(start + n_samples)
        count == IF ToUInt(start) < end THEN end - ToUInt(start) ELSE 0
        r == do_resize(self, end, failAt, junk)
        stored == [ch \in 1..self.n_channels |->
                     ImportLoop([chan |-> r.frag.data[ch], fault |-> FALSE],
                                bytes, ch, bytes_per_sample, start, 0, count)]
        ran == check = "none" /\ r.stat = 0 /\ ~r.fault
        bad == \/ check = "none" /\ r.fault
               \/ ran /\ \E ch \in 1..self.n_channels : stored[ch].fault
    IN /\ ~fault
       /\ fault' = bad
       /\ frag' = IF bad \/ check # "none" THEN frag
                  ELSE IF ~ran THEN [frag EXCEPT ![t] = r.frag]
                  ELSE [frag EXCEPT ![t] =
                          [r.frag EXCEPT !.data =
                             [ch \in 1..self.n_channels |-> stored[ch].chan]]]
       /\ last' = [op |-> "decode", target |-> t, pre |-> frag,
                   args |-> [bytes |-> bytes, start |-> start,
                             sample_width |-> sample_width,
                             sample_rate |-> sample_rate,
                             n_channels |-> n_channels],
                   err |-> IF check # "none" THEN check
                           ELSE IF bad THEN "fault"
                           ELSE IF r.stat < 0 THEN "OutOfMemory" ELSE "none",
                   ret |-> <<>>, oom |-> check = "none" /\ r.oom,
                   before |-> Before]
       /\ UNCHANGED wire

Widths == {1, 2}
ByteArrays == {<<>>, <<1, 0, 2>>, <<255, 127>>}
ImportStarts == {0 - 1, 0, 1}

Encode == \E sample_width \in Widths : Fragment_as_bytes(1, sample_width)

Decode ==
    \E bytes \in {wire} \cup ByteArrays, start \in ImportStarts,
       sample_width \in Widths, sample_rate \in {2, 3}, n_channels \in ChanCounts,
       failAt \in {0, 1} :
        Fragment_import_bytes(2, bytes, start, sample_width, sample_rate,
                              n_channels, failAt, 0)

(***************************************************************************)
(* Fragment_normalize, in exact arithmetic: with n = length and S the sum  *)
(* of a channel, avg = S / n, and every deviation is kept times n.  A      *)
(* division by a peak of 0.0 gives an infinite gain, and 0 * inf is NaN.   *)
(***************************************************************************)
NaN == 0 - 2000000000

RECURSIVE GCD(_, _)
GCD(a, b) == IF b = 0 THEN a ELSE GCD(b, a % b)

\* a * b / c truncated, without forming a * b where a and c share a factor
MulDiv(a, b, c) ==
    LET g == GCD(Abs(a), Abs(c))
        h == GCD(Abs(b), Abs(c) \div g)
    IN TruncDiv((a \div g) * (b \div h), (c \div g) \div h)

RECURSIVE SumTo(_, _)
SumTo(mem, n) == IF n = 0 THEN 0 ELSE mem[n] + SumTo(mem, n - 1)

\* pos starts at -1.0 and neg at 1.0; each follows the samples beyond it
ChanPos(self, c) ==
    LET m == {0 - One} \cup { self.data[c].mem[j] : j \in 1..self.length }
    IN CHOOSE x \in m : \A y \in m : y <= x
ChanNeg(self, c) ==
    LET m == {One} \cup { self.data[c].mem[j] : j \in 1..self.length }
    IN CHOOSE x \in m : \A y \in m : x <= y

\* n * chan_peak: the larger of |neg - avg| and |pos - avg|, times n
ChanPeakN(self, c) ==
    LET n == Max2(self.length, 1)
        S == SumTo(self.data[c].mem, self.length)
    IN Max2(Abs(n * ChanNeg(self, c) - S), Abs(n * ChanPos(self, c) - S))

\* n * peak over the channels (peak starts at 0.0)
PeakN(self) ==
    LET m == {0} \cup { ChanPeakN(self, c) : c \in 1..self.n_channels }
    IN CHOOSE x \in m : \A y \in m : y <= x

\* (sample - chan_avg) * level / peak
Normalized(self, c, j, level) ==
    LET n == self.length
        S == SumTo(self.data[c].mem, n)
        dev == n * self.data[c].mem[j] - S
    IN IF PeakN(self) = 0 THEN NaN
       ELSE MulDiv(dev, One * level, PeakN(self))

Fragment_normalize(t, level_dB) ==
    LET self == frag[t]
        level == dB2lin(level_dB)
        bad == \/ self.length < 0 /\ self.n_channels > 0
               \/ self.length > 0 /\
                  \E c \in 1..self.n_channels : ~InBlock(self.data[c], self.length - 1)
    IN /\ ~fault
       /\ IsLevel(level_dB)
       /\ fault' = bad
       /\ frag' = IF bad THEN frag
                  ELSE [frag EXCEPT ![t].data =
                          [c \in 1..self.n_channels |->
                             IF self.length <= 0 THEN self.data[c]
                             ELSE [self.data[c] EXCEPT !.mem =
                                     [j \in 1..Len(self.data[c].mem) |->
                                        IF j <= self.length
                                        THEN Normalized(self, c, j, level)
                                        ELSE self.data[c].mem[j]]]]]
       /\ last' = [op |-> "normalize", target |-> t, pre |-> frag,
                   args |-> [level_dB |-> level_dB, level |-> level],
                   err |-> IF bad THEN "fault" ELSE "none",
                   ret |-> IF bad THEN <<>>
                           ELSE [peakN |-> PeakN(self),
                                 chan_peakN |-> [c \in 1..self.n_channels |->
                                                   ChanPeakN(self, c)]],
                   oom |-> FALSE, before |-> Before]
       /\ UNCHANGED wire

Levels == {0, 20}

Normalize == \E level_dB \in Levels : Fragment_normalize(1, level_dB)

(***************************************************************************)
(* Fragment_amp.  The gain object is a float, a tuple of floats, or        *)
(* something else; the levels are in dB.                                   *)
(***************************************************************************)
GainFloat(dB) == [kind |-> "float", dB |-> <<dB>>]
GainTuple(dBs) == [kind |-> "tuple", dB |-> dBs]
GainOther == [kind |-> "other", dB |-> <<>>]

\* a channel whose first length samples are replaced by new[j], j from 1
MapChannel(self, c, new) ==
    [self.data[c] EXCEPT !.mem = [j \in 1..Len(self.data[c].mem) |->
                                     IF j <= self.length THEN new[j]
                                     ELSE self.data[c].mem[j]]]

\* the loops over i < length leave the blocks of the fragment
Unaddressable(self) ==
    \/ self.length < 0 /\ self.n_channels > 0
    \/ self.length > 0 /\
       \E c \in 1..self.n_channels : ~InBlock(self.data[c], self.length - 1)

FMul(x, g) == IF x = NaN THEN NaN ELSE x * g

Fragment_amp(t, gain_obj) ==
    LET self == frag[t]
        check == IF gain_obj.kind = "float" THEN "none"
                 ELSE IF gain_obj.kind = "tuple"
                 THEN (IF Len(gain_obj.dB) # self.n_channels THEN "ValueError"
                       ELSE "none")
                 ELSE "TypeError"
        gain(c) == IF gain_obj.kind = "float" THEN dB2lin(gain_obj.dB[1])
                   ELSE dB2lin(gain_obj.dB[c])
        bad == check = "none" /\ Unaddressable(self)
    IN /\ ~fault
       /\ \A k \in 1..Len(gain_obj.dB) : IsLevel(gain_obj.dB[k])
       /\ fault' = bad
       /\ frag' = IF bad \/ check # "none" THEN frag
                  ELSE [frag EXCEPT ![t].data =
                          [c \in 1..self.n_channels |->
                             MapChannel(self, c, [j \in 1..self.length |->
                                FMul(self.data[c].mem[j], gain(c))])]]
       /\ last' = [op |-> "amp", target |-> t, pre |-> frag,
                   args |-> [gain |-> gain_obj],
                   err |-> IF bad THEN "fault" ELSE check,
                   ret |-> <<>>, oom |-> FALSE, before |-> Before]
       /\ UNCHANGED wire

(***************************************************************************)
(* geomusic_sine and geomusic_overtones.  A frequency is given in quarters *)
(* of the sample rate (freq = quarters * rate / 4), where the sine of      *)
(* 2 * pi * freq * i / rate is 0, 1, 0, -1 in turn; overtone ratios are    *)
(* integers.                                                               *)
(***************************************************************************)
SinQuarter(m) == IF m % 4 = 1 THEN 1 ELSE IF m % 4 = 3 THEN 0 - 1 ELSE 0

geomusic_sine(t, quarters, levels) ==
    LET self == frag[t]
        n_channels == Len(levels)
        check == IF n_channels > MAX_CHANNELS THEN "ValueError"
                 ELSE IF n_channels # self.n_channels THEN "ValueError"
                 ELSE "none"
        \* i is signed here: a negative length ends the loop at once
        bad == check = "none" /\ self.length > 0 /\ Unaddressable(self)
    IN /\ ~fault
       /\ \A k \in 1..Len(levels) : IsLevel(levels[k])
       /\ fault' = bad
       /\ frag' = IF bad \/ check # "none" THEN frag
                  ELSE [frag EXCEPT ![t].data =
                          [c \in 1..self.n_channels |->
                             MapChannel(self, c, [j \in 1..self.length |->
                                SinQuarter(quarters * (j - 1))
                                               * dB2lin(levels[c]) * One])]]
       /\ last' = [op |-> "sine", target |-> t, pre |-> frag,
                   args |-> [quarters |-> quarters, levels |-> levels],
                   err |-> IF bad THEN "fault" ELSE check,
                   ret |-> <<>>, oom |-> FALSE, before |-> Before]
       /\ UNCHANGED wire

\* an item of the overtones dictionary, in the order PyDict_Next yields
Overtone(ratio, levels) == [kind |-> "ok", ratio |-> ratio, levels |-> levels]
BadKey == [kind |-> "key", ratio |-> 0, levels |-> <<>>]
BadLevels == [kind |-> "levels", ratio |-> 0, levels |-> <<>>]

OvertoneError(self, ot) ==
    IF ot.kind = "key" \/ ot.kind = "levels" THEN "TypeError"
    ELSE IF Len(ot.levels) # self.n_channels THEN "ValueError"
    ELSE "none"

FirstOvertoneError(self, overtones) ==
    IF \A k \in 1..Len(overtones) : OvertoneError(self, overtones[k]) = "none"
    THEN "none"
    ELSE OvertoneError(self, overtones[
            CHOOSE k \in 1..Len(overtones) :
               /\ OvertoneError(self, overtones[k]) # "none"
               /\ \A j \in 1..(k - 1) : OvertoneError(self, overtones[j]) = "none"])

\* if ((ot->freq * freq) >= (frag->rate / 2)) the overtone is silenced
Silenced(self, quarters, ot) ==
    ot.ratio * quarters * self.rate >= 4 * (self.rate \div 2)

RECURSIVE OvertoneSum(_, _, _, _, _, _)
OvertoneSum(self, quarters, levels, overtones, c, j) ==
    IF overtones = <<>> THEN 0
    ELSE LET ot == Head(overtones)
         IN (IF Silenced(self, quarters, ot) THEN 0
             ELSE SinQuarter(quarters * (j - 1) * ot.ratio)
                    * dB2lin(ot.levels[c]) * dB2lin(levels[c]) * One)
            + OvertoneSum(self, quarters, levels, Tail(overtones), c, j)

FAdd(x, y) == IF x = NaN \/ y = NaN THEN NaN ELSE x + y

geomusic_overtones(t, quarters, levels, overtones) ==
    LET self == frag[t]
        check == IF Len(levels) # self.n_channels THEN "ValueError"
                 ELSE FirstOvertoneError(self, overtones)
        bad == check = "none" /\ overtones # <<>> /\ Unaddressable(self)
    IN /\ ~fault
       /\ \A k \in 1..Len(levels) : IsLevel(levels[k])
       /\ fault' = bad
       /\ frag' = IF bad \/ check # "none" THEN frag
                  ELSE [frag EXCEPT ![t].data =
                          [c \in 1..self.n_channels |->
                             MapChannel(self, c, [j \in 1..self.length |->
                                FAdd(self.data[c].mem[j],
                                                OvertoneSum(self, quarters, levels,
                                                            overtones, c, j))])]]
       /\ last' = [op |-> "overtones", target |-> t, pre |-> frag,
                   args |-> [quarters |-> quarters, levels |-> levels,
                             overtones |-> overtones],
                   err |-> IF bad THEN "fault" ELSE check,
                   ret |-> <<>>, oom |-> FALSE, before |-> Before]
       /\ UNCHANGED wire

(***************************************************************************)
(* geomusic_dec_envelope (and splat_filter_dec_envelope), for integers     *)
(* k >= 0 and p >= 0: sample / ((k + i) / k)^p.                            *)
(***************************************************************************)
Envelope(x, i, k, p) == IF x = NaN THEN NaN ELSE TruncDiv(x * (k ^ p), (k + i) ^ p)

geomusic_dec_envelope(t, k, p) ==
    LET self == frag[t]
        check == IF k = 0 THEN "ValueError" ELSE "none"
        bad == check = "none" /\ Unaddressable(self)
    IN /\ ~fault
       /\ fault' = bad
       /\ frag' = IF bad \/ check # "none" THEN frag
                  ELSE [frag EXCEPT ![t].data =
                          [c \in 1..self.n_channels |->
                             MapChannel(self, c, [j \in 1..self.length |->
                                Envelope(self.data[c].mem[j], j - 1, k, p)])]]
       /\ last' = [op |-> "dec_envelope", target |-> t, pre |-> frag,
                   args |-> [k |-> k, p |-> p],
                   err |-> IF bad THEN "fault" ELSE check,
                   ret |-> <<>>, oom |-> FALSE, before |-> Before]
       /\ UNCHANGED wire

LevelTuples == UNION { [1..k -> {0, 20}] : k \in ChanCounts }
GainObjects == {GainFloat(0), GainFloat(20), GainOther}
                  \cup { GainTuple(q) : q \in LevelTuples }
Quarters == 0..2
OvertoneLists ==
    {<<>>, <<BadKey>>, <<BadLevels>>}
      \cup { <<Overtone(1, q)>> : q \in LevelTuples }
      \cup { <<Overtone(1, <<0>>), Overtone(3, q)>> : q \in LevelTuples }

Amp == \E gain_obj \in GainObjects : Fragment_amp(1, gain_obj)
Sine == \E quarters \in Quarters, levels \in LevelTuples :
           geomusic_sine(1, quarters, levels)
Overtones ==
    \E quarters \in Quarters, levels \in LevelTuples, overtones \in OvertoneLists :
        geomusic_overtones(1, quarters, levels, overtones)
DecEnvelope == \E k \in 0..2, p \in 0..2 : geomusic_dec_envelope(1, k, p)

(***************************************************************************)
(* Initial states and specifications.                                      *)
(***************************************************************************)
Vals == {0 - 2, 0, 4}
Rates == {2}
Empty2 == Fragment_init(1, 2, 0)

InitWith(F1, F2) ==
    /\ \E f1 \in F1, f2 \in F2 : frag = [k \in FragIds |-> IF k = 1 THEN f1 ELSE f2]
    /\ last = NoOp
    /\ wire = <<>>
    /\ fault = FALSE
    /\ nops = 0

\* One call per behaviour; at most MaxOps calls
OneCall(A) == last.op = "none" /\ A /\ UNCHANGED nops
Counted(A) == nops < MaxOps /\ A /\ nops' = nops + 1

InitResize == InitWith(FragsWith(ChanCounts, Rates, 0..MaxLen, Vals), {Empty2})

NextResize == Counted(Resize)

SpecResize == InitResize /\ [][NextResize]_vars

InitReverse == InitWith(FragsWith(ChanCounts, Rates, 0..(MaxLen + 1), Vals), {Empty2})

NextReverse == Counted(Reverse)

SpecReverse == InitReverse /\ [][NextReverse]_vars

InitReverb == InitWith(FragsWith(ChanCounts, Rates, 0..MaxLen, {0 - 2, 4}), {Empty2})

NextReverb == OneCall(Reverb)

SpecReverb == InitReverb /\ [][NextReverb]_vars

InitMix == InitWith(FragsWith(ChanCounts, {2}, 0..MaxLen, {0 - 2, 4}),
                    FragsWith(ChanCounts, {2}, 0..MaxLen, {1, 3})
                       \cup FragsWith({1}, {3}, {1}, {1}))

NextMix == OneCall(Mix)

SpecMix == InitMix /\ [][NextMix]_vars

\* a call that follows a call of the operation op
After(op, A) == last.op = op /\ A /\ UNCHANGED nops

InitCodec == InitWith(FragsWith(ChanCounts, {2}, 0..MaxLen, {0 - One, 500, 2 * One}),
                      {Fragment_init(1, 2, 0), Fragment_init(2, 2, 0),
                       Fragment_init(1, 2, 1), Fragment_init(1, 3, 0)})

NextCodec == OneCall(Encode) \/ After("encode", Decode)

SpecCodec == InitCodec /\ [][NextCodec]_vars

InitNormalize ==
    InitWith(FragsWith(ChanCounts, {2}, 0..MaxLen,
                       {0 - One, 0, One \div 2, 2 * One}), {Empty2})

NextNormalize == OneCall(Normalize)

SpecNormalize == InitNormalize /\ [][NextNormalize]_vars

\* second fragments of every format, empty or not
Others == FragsWith(ChanCounts, {2}, {1}, {1}) \cup FragsWith({1}, {3}, {1}, {1})

InitErrors == InitWith(FragsWith(ChanCounts, {2}, 0..MaxLen, {0 - 2, 4}), Others)

NextErrors ==
    \/ OneCall(Set)
    \/ OneCall(Mix)
    \/ OneCall(Decode)
    \/ OneCall(Reverb)
    \/ OneCall(Amp)
    \/ OneCall(Sine)
    \/ OneCall(Overtones)
    \/ OneCall(DecEnvelope)

SpecErrors == InitErrors /\ [][NextErrors]_vars

InitOom == InitWith(FragsWith(ChanCounts, {2}, 0..MaxLen, {0 - 2, 4}),
                    FragsWith({1}, {2}, {0, 1}, {1, 3}))

NextOom ==
    \/ OneCall(Resize)
    \/ OneCall(Mix)
    \/ OneCall(Decode)
    \/ OneCall(Reverb)

SpecOom == InitOom /\ [][NextOom]_vars

InitSelfMix == InitWith(FragsWith(ChanCounts, {2}, 0..MaxLen, {0 - 2, 4}), {Empty2})

NextSelfMix == OneCall(MixSelf)

SpecSelfMix == InitSelfMix /\ [][NextSelfMix]_vars

\* Every operation, called once on a constructed fragment, and every cheap
\* operation called on what a resize (served, refused or wrapped) leaves
\* the second call of a behaviour, after a first call of the operation op
Then(op, A) == last.op = op /\ last.before.op = "none" /\ A /\ UNCHANGED nops

InitAll == InitWith(FragsWith(ChanCounts, {2}, 0..MaxLen, {4}), Others)

NextAll ==
    \/ OneCall(Resize)
    \/ OneCall(Get)
    \/ OneCall(Set)
    \/ OneCall(Mix)
    \/ OneCall(MixSelf)
    \/ OneCall(Decode)
    \/ OneCall(Encode)
    \/ OneCall(Normalize)
    \/ OneCall(Amp)
    \/ OneCall(Sine)
    \/ OneCall(Overtones)
    \/ OneCall(DecEnvelope)
    \/ OneCall(Reverse)
    \/ OneCall(Reverb)
    \/ Then("resize", Resize)
    \/ Then("resize", Get)
    \/ Then("resize", Set)
    \/ Then("resize", MixSelf)
    \/ Then("resize", Encode)
    \/ Then("resize", Normalize)
    \/ Then("resize", Amp)
    \/ Then("resize", Sine)
    \/ Then("resize", DecEnvelope)
    \/ Then("resize", Reverse)

SpecAll == InitAll /\ [][NextAll]_vars

\* the samples a fragment holds after any calls of the sequence interface
Stored == {ToFloat(6), ToFloat(3)}
InitAccess == InitWith(FragsWith(ChanCounts, Rates, 0..MaxLen, Stored), {Empty2})

NextAccess == OneCall(Get) \/ OneCall(Set) \/ After("set", Get)

SpecAccess == InitAccess /\ [][NextAccess]_vars

(***************************************************************************)
(* C1: resize(n) with n <= length changes neither the length nor any       *)
(* sample; a resize(n) with n > length that succeeds leaves length = n,    *)
(* zeros in [old_length, n) of every channel and the old samples in place. *)
(***************************************************************************)
C1_ResizeContract ==
    (last.op = "resize") =>
       LET old == last.pre[last.target]
           new == frag[last.target]
           n == last.args.n
       IN /\ (n <= old.length) => (new = old /\ ~fault)
          /\ (n > old.length /\ last.err = "none") =>
                /\ new.length = n
                /\ \A c \in 1..new.n_channels :
                     /\ ~new.data[c].null
                     /\ Len(new.data[c].mem) >= n
                     /\ \A i \in old.length..(n - 1) : Sample(new, c, i) = 0
                     /\ \A i \in 0..(old.length - 1) :
                          Sample(new, c, i) = Sample(old, c, i)

(***************************************************************************)
(* C2: reverse puts the previous sample[length-1-i] at index i, and a      *)
(* second reverse restores every sample, for every length 0, 1, even, odd. *)
(***************************************************************************)
C2_ReverseInvolution ==
    (last.op = "reverse") =>
       LET old == last.pre[1]
           new == frag[1]
       IN /\ ~fault
          /\ new.length = old.length
          /\ \A c \in 1..new.n_channels : \A i \in 0..(new.length - 1) :
                Sample(new, c, i) = Sample(old, c, old.length - 1 - i)
          /\ (last.before.op = "reverse") => (new = last.before.pre[1])

(***************************************************************************)
(* C3: reverb with the single delay (0.0, 0.0 dB) and no jitter leaves the *)
(* length of any buffer (length 0 included) unchanged and every sample     *)
(* doubled.                                                                *)
(***************************************************************************)
C3_ReverbUnitDelay ==
    (/\ last.op = "reverb"
     /\ last.args.delays = <<Delay(0, 0)>>
     /\ last.args.time_factor = 0 /\ last.args.gain_factor = 0
     /\ ~last.oom) =>
       LET old == last.pre[1]
           new == frag[1]
       IN /\ ~fault /\ last.err = "none"
          /\ new.length = old.length
          /\ \A c \in 1..new.n_channels : \A i \in 0..(old.length - 1) :
                Sample(new, c, i) = 2 * Sample(old, c, i)

\* the sample an out-of-place reverb computes at index n of channel c from
\* the samples old held: old[n] (0 past its end) plus, for every tap d with
\* 0 <= n - time < old.length, old[n - time] * gain
RECURSIVE TapSum(_, _, _, _, _)
TapSum(old, c, n, c_delay, d) ==
    IF d > Len(c_delay) THEN 0
    ELSE (IF 0 <= n - c_delay[d].time /\ n - c_delay[d].time < old.length
          THEN Sample(old, c, n - c_delay[d].time) * c_delay[d].gain ELSE 0)
         + TapSum(old, c, n, c_delay, d + 1)

OutOfPlace(old, c, n, c_delay) ==
    (IF n < old.length THEN Sample(old, c, n) ELSE 0) + TapSum(old, c, n, c_delay, 1)

(***************************************************************************)
(* C4: a reverb pass over a buffer of old_length >= 1 whose allocations    *)
(* are served, with taps at offsets >= 0, reads no index it has already    *)
(* written, grows the buffer to old_length + max_delay, and leaves at      *)
(* every index the result of the out-of-place computation.                 *)
(***************************************************************************)
C4_ReverbOutOfPlace ==
    (/\ last.op = "reverb"
     /\ last.pre[1].length >= 1
     /\ FirstBadDelay(last.args.delays) = 0
     /\ ~last.oom) =>
       LET old == last.pre[1]
           new == frag[1]
       IN /\ ~fault /\ last.err = "none"
          /\ ~last.ret.stale
          /\ new.length = old.length + last.args.max_delay
          /\ \A c \in 1..new.n_channels :
                /\ InBlock(new.data[c], new.length - 1)
                /\ \A n \in 0..(new.length - 1) :
                     Sample(new, c, n) = OutOfPlace(old, c, n, last.args.taps[c])

\* a pass with a tap at offset 0 and a later tap whose offset falls inside
\* the old samples, over non-zero samples
C4_Witness ==
    /\ last.op = "reverb" /\ last.err = "none" /\ ~fault
    /\ last.pre[1].length >= 2
    /\ last.args.max_delay >= 1
    /\ \E c \in 1..frag[1].n_channels :
          /\ Len(last.args.taps[c]) = 2
          /\ last.args.taps[c][1].time = 0
          /\ last.args.taps[c][2].time = 1
          /\ Sample(last.pre[1], c, 0) # 0
          /\ Sample(frag[1], c, 1) # Sample(last.pre[1], c, 1)

\* what C6 states of a mix of fragment 2 into fragment 1 that starts at
\* sample start_sample
MixContract(start_sample) ==
    LET dest == last.pre[1]
        source == last.pre[2]
        new == frag[1]
    IN /\ ~fault /\ last.err = "none"
       /\ new.length = Max2(dest.length, start_sample + source.length)
       /\ frag[2] = source
       /\ \A c \in 1..new.n_channels :
             /\ new.length > 0 => InBlock(new.data[c], new.length - 1)
             /\ \A n \in 0..(new.length - 1) :
                  Sample(new, c, n) =
                     (IF n < dest.length THEN Sample(dest, c, n) ELSE 0)
                     + (IF start_sample <= n /\ n < start_sample + source.length
                        THEN Sample(source, c, n - start_sample) ELSE 0)

MixCase ==
    /\ last.op = "mix" /\ last.target = 1 /\ last.args.source = 2
    /\ last.pre[1].n_channels = last.pre[2].n_channels
    /\ last.pre[1].rate = last.pre[2].rate
    /\ ~last.oom

\* round(start * rate), halves away from zero
RoundSample(start, rate) == (2 * start * rate + TimeDen) \div (2 * TimeDen)

(***************************************************************************)
(* C6 as stated: with start_sample = round(start * dest.sample_rate), a    *)
(* served mix of a source of the same format into dest leaves dest.length  *)
(* = max(old length, start_sample + source.length), adds source[i] at      *)
(* start_sample + i, changes no other sample and leaves source unchanged.  *)
(***************************************************************************)
C6_MixRounded ==
    MixCase => MixContract(RoundSample(last.args.start, last.pre[1].rate))

(***************************************************************************)
(* C6 as amended: the same with start_sample = start * dest.sample_rate    *)
(* truncated toward zero, dest and source being two fragments.             *)
(***************************************************************************)
C6_MixTruncated ==
    MixCase => MixContract((last.args.start * last.pre[1].rate) \div TimeDen)

\* a mix at a start that truncation and rounding place differently, which
\* grows dest and adds non-zero samples
C6_Witness ==
    /\ MixCase /\ last.err = "none" /\ ~fault
    /\ RoundSample(last.args.start, last.pre[1].rate)
          # (last.args.start * last.pre[1].rate) \div TimeDen
    /\ last.pre[2].length >= 2
    /\ last.pre[1].length >= 2
    /\ (last.args.start * last.pre[1].rate) \div TimeDen = 1
    /\ frag[1].length > last.pre[1].length

(***************************************************************************)
(* C5: the bytes encode(buffer, 2) returns for a buffer whose samples all  *)
(* lie in [-1, 1], decoded at offset 0 into a buffer of the same rate and  *)
(* channel count, give back every sample within 1/32767.                   *)
(***************************************************************************)
C5_CodecRoundTrip ==
    (/\ last.op = "decode" /\ last.before.op = "encode"
     /\ last.before.err = "none"
     /\ last.args.bytes = wire /\ last.args.start = 0
     /\ last.args.sample_width = 2
     /\ last.args.sample_rate = last.pre[1].rate
     /\ last.args.n_channels = last.pre[1].n_channels
     /\ last.pre[2].rate = last.pre[1].rate
     /\ last.pre[2].n_channels = last.pre[1].n_channels
     /\ ~last.oom
     /\ \A c \in 1..last.pre[1].n_channels : \A i \in 0..(last.pre[1].length - 1) :
           Abs(Sample(last.pre[1], c, i)) <= One) =>
       /\ ~fault /\ last.err = "none"
       /\ frag[2].length >= last.pre[1].length
       /\ \A c \in 1..frag[2].n_channels : \A i \in 0..(last.pre[1].length - 1) :
             Abs(Sample(frag[2], c, i) - Sample(last.pre[1], c, i)) * FullScale <= One

\* n times the peak deviation of channel c of f from its mean
DeviationN(f, c) ==
    LET S == SumTo(f.data[c].mem, f.length)
        m == { Abs(f.length * f.data[c].mem[j] - S) : j \in 1..f.length }
    IN CHOOSE x \in m : \A y \in m : y <= x

HasNaN(f) ==
    \E c \in 1..f.n_channels : \E j \in 1..f.length : f.data[c].mem[j] = NaN

(***************************************************************************)
(* C7: after normalize(buffer, L) of a non-empty buffer the gain was       *)
(* finite, every channel's mean is 0 and the channel that had the largest  *)
(* peak deviation from its mean has peak deviation dB2lin(L) from its new  *)
(* mean (each within the rounding of one unit per sample).                 *)
(***************************************************************************)
C7_NormalizeLevel ==
    (last.op = "normalize" /\ last.pre[1].length >= 1) =>
       LET old == last.pre[1]
           new == frag[1]
           n == old.length
       IN /\ ~fault /\ last.ret.peakN # 0
          /\ ~HasNaN(new)
          /\ \A c \in 1..new.n_channels :
                /\ Abs(SumTo(new.data[c].mem, n)) <= n
                /\ (\A e \in 1..old.n_channels : DeviationN(old, e) <= DeviationN(old, c))
                      => Abs(DeviationN(new, c) - n * One * last.args.level) <= 2 * n

(***************************************************************************)
(* C8 as stated: get and set fail with IndexError exactly when the index   *)
(* is out of range; get returns one value per channel; a successful set    *)
(* changes exactly the samples at the index, and a following get at that   *)
(* index returns the values that were set.                                 *)
(***************************************************************************)
OutOfRange == last.args.i < 0 \/ last.args.i >= last.pre[last.target].length

GetReturnsSamples ==
    (last.op = "get" /\ last.err = "none") =>
       /\ Len(last.ret) = frag[last.target].n_channels
       /\ \A c \in 1..Len(last.ret) :
             last.ret[c] = ToDouble(Sample(frag[last.target], c, last.args.i))

\* the fragment after a successful set differs from the one before at most
\* in the samples at the index
SetTouchesIndex ==
    (last.op = "set" /\ last.err = "none") =>
       LET old == last.pre[last.target]
           new == frag[last.target]
       IN /\ new.length = old.length
          /\ new.n_channels = old.n_channels /\ new.rate = old.rate
          /\ \A c \in 1..old.n_channels : \A i \in 0..(old.length - 1) :
                i # last.args.i => Sample(new, c, i) = Sample(old, c, i)
          /\ \A k \in FragIds : k # last.target => frag[k] = last.pre[k]

GetFollowsSet ==
    /\ last.op = "get" /\ last.err = "none"
    /\ last.before.op = "set" /\ last.before.err = "none"
    /\ last.before.target = last.target
    /\ last.before.args.i = last.args.i

C8_Original ==
    /\ last.op \in {"get", "set"} => (last.err = "IndexError" <=> OutOfRange)
    /\ GetReturnsSamples
    /\ SetTouchesIndex
    /\ GetFollowsSet =>
          \A c \in 1..Len(last.ret) : last.ret[c] = last.before.args.v.items[c].val

(***************************************************************************)
(* C8 as the code has it: set checks the tuple and its size before the     *)
(* index, and a sample is stored in single precision, so the following get *)
(* returns the values rounded to single precision.                         *)
(***************************************************************************)
C8_GetSet ==
    /\ last.op = "get" => (last.err = "IndexError" <=> OutOfRange)
    /\ last.op = "set" =>
          (last.err = "IndexError" <=>
              /\ last.args.v.istuple
              /\ Len(last.args.v.items) = last.pre[last.target].n_channels
              /\ OutOfRange)
    /\ GetReturnsSamples
    /\ SetTouchesIndex
    /\ (last.op = "set" /\ last.err = "none") =>
          \A c \in 1..frag[last.target].n_channels :
             Sample(frag[last.target], c, last.args.i)
                = ToFloat(last.args.v.items[c].val)
    /\ GetFollowsSet =>
          \A c \in 1..Len(last.ret) :
             last.ret[c] = ToDouble(ToFloat(last.before.args.v.items[c].val))

\* a get after a successful set, at the same index, of a value that single
\* precision cannot hold
C8_Witness ==
    /\ GetFollowsSet
    /\ \E c \in 1..Len(last.ret) :
          /\ last.ret[c] # last.before.args.v.items[c].val
          /\ last.ret[c] # ToDouble(Sample(last.before.pre[last.target], c, last.args.i))

(***************************************************************************)
(* C9: a call that fails with an error other than OutOfMemory leaves the   *)
(* length and every sample of every buffer as they were.                   *)
(***************************************************************************)
C9_ErrorsLeaveBuffers ==
    (last.op # "none" /\ last.err \notin {"none", "OutOfMemory", "fault"}) =>
       frag = last.pre

(***************************************************************************)
(* C10: when the allocation for a channel fails in a growing resize (by    *)
(* resize, mix, decode or reverb) the call reports OutOfMemory, the length *)
(* is unchanged and every channel still holds its samples.                 *)
(***************************************************************************)
GrowthFailed ==
    /\ last.op \in {"resize", "mix", "decode", "reverb"}
    /\ last.oom
    /\ last.op = "reverb" => last.args.delayFail = 0

C10_OomKeepsBuffer ==
    GrowthFailed =>
       LET old == last.pre[last.target]
           new == frag[last.target]
       IN /\ last.err = "OutOfMemory"
          /\ new.length = old.length
          /\ \A c \in 1..old.n_channels : \A i \in 0..(old.length - 1) :
                Readable(new, c, i) /\ Sample(new, c, i) = Sample(old, c, i)

(***************************************************************************)
(* C11: whatever was called, successful or failed, no length has           *)
(* decreased, every channel of every fragment holds its length samples,    *)
(* there are at most 16 channels and the channel count and sample rate are *)
(* the ones of construction.                                               *)
(***************************************************************************)
C11_BufferInvariant ==
    \A k \in FragIds :
       /\ ValidFrag(frag[k])
       /\ frag[k].n_channels <= MAX_CHANNELS
       /\ last.op # "none" =>
             /\ frag[k].length >= last.pre[k].length
             /\ frag[k].rate = last.pre[k].rate
             /\ frag[k].n_channels = last.pre[k].n_channels

(***************************************************************************)
(* C12: a successful decode of f frames of 16-bit samples at offset leaves *)
(* length = max(old length, offset + f), puts sample c of frame k at index *)
(* offset + k of channel c, and leaves every other sample unchanged (zero  *)
(* in a grown gap), for every offset the call accepts.                     *)
(***************************************************************************)
FrameSample(bytes, n_channels, c, k) ==
    Dequantize(Int16At(bytes, 2 * (c - 1) + k * 2 * n_channels))

C12_DecodeContract ==
    (last.op = "decode" /\ last.err = "none" /\ last.args.sample_width = 2) =>
       LET old == last.pre[last.target]
           new == frag[last.target]
           offset == last.args.start
           f == Len(last.args.bytes) \div (last.args.n_channels * 2)
       IN /\ new.length = Max2(old.length, offset + f)
          /\ \A c \in 1..new.n_channels : \A n \in 0..(new.length - 1) :
                Sample(new, c, n) =
                   IF offset <= n /\ n < offset + f
                   THEN FrameSample(last.args.bytes, last.args.n_channels, c, n - offset)
                   ELSE IF n < old.length THEN Sample(old, c, n) ELSE 0

(***************************************************************************)
(* C13: normalize reports, for a channel whose samples all lie strictly    *)
(* inside (-1, 1), a peak of at least the larger of |1.0 - avg| and        *)
(* |-1.0 - avg|, and the peak it divides by is not zero for a silent or    *)
(* constant channel.  (Peaks and deviations are kept times n = length.)    *)
(***************************************************************************)
StrictlyInside(f, c) ==
    \A j \in 1..f.length : 0 - One < f.data[c].mem[j] /\ f.data[c].mem[j] < One

C13_SeededPeak ==
    (last.op = "normalize" /\ last.err = "none" /\ last.pre[1].length >= 1) =>
       LET old == last.pre[1]
           n == old.length
       IN /\ last.ret.peakN # 0
          /\ \A c \in 1..old.n_channels :
                StrictlyInside(old, c) =>
                   LET S == SumTo(old.data[c].mem, n)
                   IN last.ret.chan_peakN[c] >= Max2(Abs(n * One - S), Abs(n * One + S))

(***************************************************************************)
(* C14: no operation, on any buffer it can be handed (length 0 included),  *)
(* reads or writes a sample outside its channel array.                     *)
(***************************************************************************)
C14_MemorySafe == ~fault /\ last.err # "fault"

(***************************************************************************)
(* C15: mix(a, a, start) grows a to start_sample + old_length, adds the    *)
(* old_length samples a held before the call at [start_sample,             *)
(* start_sample + old_length) and writes nowhere else.                     *)
(***************************************************************************)
C15_SelfMix ==
    (/\ last.op = "mix" /\ last.target = 1 /\ last.args.source = 1
     /\ ~last.oom) =>
       LET old == last.pre[1]
           new == frag[1]
           start_sample == (last.args.start * old.rate) \div TimeDen
       IN /\ ~fault /\ last.err = "none"
          /\ new.length = start_sample + old.length
          /\ \A c \in 1..new.n_channels : \A n \in 0..(new.length - 1) :
                Sample(new, c, n) =
                   (IF n < old.length THEN Sample(old, c, n) ELSE 0)
                   + (IF start_sample <= n /\ n < start_sample + old.length
                      THEN Sample(old, c, n - start_sample) ELSE 0)

=============================================================================
